---- MODULE Spec2Model ----
(***************************************************************************)
(* Provisions-Dashboard (src/app.py): the table ring_prov, the session's   *)
(* period filter and the result of the last script run.  Every user event  *)
(* (saving the form, pressing a filter button, loading the page) runs the  *)
(* whole script: load_data, calculate_all_forecasts, the period sums.      *)
(*                                                                         *)
(* Months are counted as integers (month 0 = the first month of the        *)
(* model's calendar).  Amounts are whole euros.  A float is an exact       *)
(* fraction n/d, with d = 0 for the IEEE specials: 0/0 is NaN, 1/0 is      *)
(* +inf, -1/0 is -inf.  Rounding of doubles is not modelled.               *)
(***************************************************************************)
EXTENDS Integers, Sequences, FiniteSets

VARIABLES store, filter, page

vars == <<store, filter, page>>

\* ---------------------------------------------------------------- bounds
MaxMonth == 37
MaxObs == 3
MaxRows == 14
MaxIrregular == 2
MaxTrendRows == 20
MaxTrendOdd == 2

\* ------------------------------------------------------ program constants
ShiftRows == 12
YearMonths == 12
TrendWindow == 6
TrendTail == 6
Horizon == 12
TailLen == 6

\* ----------------------------------------------------------------- floats
NaN == [n |-> 0, d |-> 0]
Inf == [n |-> 1, d |-> 0]
NegInf == [n |-> -1, d |-> 0]
Num(i) == [n |-> i, d |-> 1]

IsNaN(x) == x.d = 0 /\ x.n = 0
IsInf(x) == x.d = 0 /\ x.n # 0
IsFinite(x) == x.d # 0

Abs(i) == IF i < 0 THEN -i ELSE i
Sgn(i) == IF i > 0 THEN 1 ELSE IF i < 0 THEN -1 ELSE 0

RECURSIVE GCD(_, _)
GCD(a, b) == IF b = 0 THEN a ELSE GCD(b, a % b)

\* The fraction n/d, d # 0, in lowest terms with a positive denominator.
Frac(n, d) ==
  LET g == GCD(Abs(n), Abs(d))
      s == IF d < 0 THEN -1 ELSE 1
  IN [n |-> (s * n) \div g, d |-> Abs(d) \div g]

FAdd(x, y) ==
  IF IsNaN(x) \/ IsNaN(y) THEN NaN
  ELSE IF IsInf(x) /\ IsInf(y) THEN (IF x.n = y.n THEN x ELSE NaN)
  ELSE IF IsInf(x) THEN x
  ELSE IF IsInf(y) THEN y
  ELSE Frac(x.n * y.d + y.n * x.d, x.d * y.d)

FNeg(x) == [n |-> -x.n, d |-> x.d]

FSub(x, y) == FAdd(x, FNeg(y))

FMul(x, y) ==
  IF IsNaN(x) \/ IsNaN(y) THEN NaN
  ELSE IF IsInf(x) \/ IsInf(y)
       THEN (IF x.n = 0 \/ y.n = 0 THEN NaN
             ELSE [n |-> Sgn(x.n) * Sgn(y.n), d |-> 0])
  ELSE Frac(x.n * y.n, x.d * y.d)

\* float division as numpy/pandas do it: x/0 is +-inf, 0/0 is NaN, no exception
FDiv(x, y) ==
  IF IsNaN(x) \/ IsNaN(y) THEN NaN
  ELSE IF IsInf(y) THEN (IF IsInf(x) THEN NaN ELSE Num(0))
  ELSE IF IsInf(x) THEN [n |-> Sgn(x.n) * (IF y.n < 0 THEN -1 ELSE 1), d |-> 0]
  ELSE IF y.n = 0 THEN [n |-> Sgn(x.n), d |-> 0]
  ELSE Frac(x.n * y.d, x.d * y.n)

\* ----------------------------------------------------------- pandas Series
RECURSIVE SumSeq(_)
SumSeq(s) == IF s = <<>> THEN Num(0) ELSE FAdd(Head(s), SumSeq(Tail(s)))

NotNaN(x) == ~IsNaN(x)

\* Series.dropna(): NaN goes, +-inf stays
DropNa(s) == SelectSeq(s, NotNaN)

\* Series.tail(k)
TailK(s, k) == IF Len(s) <= k THEN s ELSE SubSeq(s, Len(s) - k + 1, Len(s))

\* Series.sum(): NaN skipped, 0 for the empty series
SeriesSum(s) == SumSeq(DropNa(s))

\* Series.mean(): NaN skipped, NaN for the empty series
SeriesMean(s) ==
  LET v == DropNa(s)
  IN IF v = <<>> THEN NaN ELSE FDiv(SumSeq(v), Num(Len(v)))

\* the values of a column, row by row, as a sequence
Values(f) == SubSeq(f, 1, Len(f))

\* Series.shift(k): row i takes the value of row i - k, the first k rows NaN
Shift(s, k) == Values([i \in 1..Len(s) |-> IF i > k THEN s[i - k] ELSE NaN])

\* pandas' Rolling._prep_values: +-inf becomes NaN before the window functions
\* run, so a rolling mean skips an infinite growth like a missing one
PrepValue(x) == IF IsInf(x) THEN NaN ELSE x

\* Series.rolling(window=w, min_periods=1).mean(): the mean of the non-NaN
\* values among the last w rows, NaN when there is none
RollingMean(s, w) ==
  Values([i \in 1..Len(s) |->
     LET lo == IF i - w + 1 < 1 THEN 1 ELSE i - w + 1
         win == [j \in 1..(i - lo + 1) |-> PrepValue(s[lo + j - 1])]
     IN SeriesMean(win)])

\* round-half-even of the fraction x to an integer, as the format spec .1f
\* rounds the digit it keeps
RoundHalfEven(x) ==
  LET fl == x.n \div x.d
      r2 == 2 * (x.n - fl * x.d)
  IN IF r2 < x.d THEN fl
     ELSE IF r2 > x.d THEN fl + 1
     ELSE IF fl % 2 = 0 THEN fl ELSE fl + 1

\* f"{x * 100:+.1f} %": the percentage in tenths, or the text of a special
FormatPct(x) ==
  LET p == FMul(x, Num(100))
  IN IF IsNaN(p) THEN [kind |-> "nan", tenths |-> 0]
     ELSE IF IsInf(p) THEN [kind |-> "inf", tenths |-> p.n]
     ELSE [kind |-> "num", tenths |-> RoundHalfEven(FMul(p, Num(10)))]

NoDiff == [kind |-> "--", tenths |-> 0]

\* ------------------------------------------------------------ the table
Amounts == {0, 1, 2}
Filters == {"alles", "1j", "3j"}

MaxOf(S) == CHOOSE m \in S : \A x \in S : x <= m
MinOf(S) == CHOOSE m \in S : \A x \in S : m <= x

\* supabase.table("ring_prov").upsert({"Monat": m, "Betrag": a})
Upsert(st, m, a) == [x \in DOMAIN st \cup {m} |-> IF x = m THEN a ELSE st[x]]

\* select("*").order("Monat"): the rows of the table, ascending by Monat
RECURSIVE OrderByMonat(_, _)
OrderByMonat(st, S) ==
  IF S = {} THEN <<>>
  ELSE LET m == MinOf(S)
       IN <<[Monat |-> m, Betrag |-> Num(st[m])]>> \o OrderByMonat(st, S \ {m})

\* load_data(): pd.DataFrame() (no rows, no columns) for an empty table
load_data(st) == OrderByMonat(st, DOMAIN st)

\* DataFrame.sort_values('Monat'): a stable insertion sort of the rows
RECURSIVE InsertRow(_, _)
InsertRow(r, s) ==
  IF s = <<>> THEN <<r>>
  ELSE IF Head(s).Monat <= r.Monat THEN <<Head(s)>> \o InsertRow(r, Tail(s))
  ELSE <<r>> \o s

RECURSIVE SortValues(_)
SortValues(s) ==
  IF s = <<>> THEN <<>>
  ELSE InsertRow(s[Len(s)], SortValues(SubSeq(s, 1, Len(s) - 1)))

Column(df, c) == Values([i \in 1..Len(df) |-> df[i][c]])

\* df['prev_year_amount'] = df['Betrag'].shift(12)
PrevYearAmount(betrag) == Shift(betrag, ShiftRows)

\* df['yoy_growth'] = (df['Betrag'] / df['prev_year_amount']) - 1
YoyGrowth(betrag, prev) ==
  Values([i \in 1..Len(betrag) |-> FSub(FDiv(betrag[i], prev[i]), Num(1))])

\* df['rolling_trend'] = df['yoy_growth'].shift(1).rolling(window=6, min_periods=1).mean()
RollingTrend(growth) == RollingMean(Shift(growth, 1), TrendWindow)

\* an expected amount with its missing values filled with 0
HistForecastFilled(prev, rolling) ==
  Values([i \in 1..Len(prev) |->
            LET x == FMul(prev[i], FAdd(Num(1), rolling[i]))
            IN IF IsNaN(x) THEN Num(0) ELSE x])

\* df['hist_forecast'] = df['prev_year_amount'] * (1 + df['rolling_trend'])
HistForecast(prev, rolling) ==
  Values([i \in 1..Len(prev) |-> FMul(prev[i], FAdd(Num(1), rolling[i]))])

\* current_trend = yoy_growth.dropna().tail(6).mean() if not yoy_growth.dropna().empty else 0
CurrentTrend(growth) ==
  IF DropNa(growth) # <<>> THEN SeriesMean(TailK(DropNa(growth), TrendTail))
  ELSE Num(0)

\* a lookup by position: the row 12 rows before the place of month m + 12
RowsAtPosition(df, m) ==
  LET i == Len(df) + m - df[Len(df)].Monat
  IN IF i \in 1..Len(df) THEN <<df[i]>> ELSE <<>>

\* hist_row = df[df['Monat'] == target_prev_year]
RowsAt(df, m) == SelectSeq(df, LAMBDA r : r.Monat = m)

\* df['Betrag'].tail(6).mean(): the loop does not change df, so every iteration
\* that falls back reads the same value
TailMean(betrag) == SeriesMean(TailK(betrag, TailLen))

\* the body of the loop for i in range(1, 13)
FuturePoint(df, current_trend, tail_mean, last_date, i) ==
  LET f_month == last_date + i
      target_prev_year == f_month - YearMonths
      hist_row == RowsAt(df, target_prev_year)
      f_amount == IF hist_row # <<>>
                  THEN FMul(hist_row[1].Betrag, FAdd(Num(1), current_trend))
                  ELSE tail_mean
  IN [Monat |-> f_month, Betrag |-> f_amount]

NoResult ==
  [raised |-> TRUE, df |-> <<>>, future |-> <<>>, trend |-> NaN,
   last_point |-> <<0, NaN>>]

\* calculate_all_forecasts(df_historical).  A frame without rows has no
\* column 'Monat': sort_values raises KeyError.
calculate_all_forecasts(df_historical) ==
  IF df_historical = <<>> THEN NoResult
  ELSE
    LET sorted == SortValues(df_historical)
        betrag == Column(sorted, "Betrag")
        prev == PrevYearAmount(betrag)
        growth == YoyGrowth(betrag, prev)
        rolling == RollingTrend(growth)
        hist == HistForecast(prev, rolling)
        df == Values([i \in 1..Len(sorted) |->
                 [Monat |-> sorted[i].Monat, Betrag |-> betrag[i],
                  prev_year_amount |-> prev[i], yoy_growth |-> growth[i],
                  rolling_trend |-> rolling[i], hist_forecast |-> hist[i]]])
        current_trend == CurrentTrend(growth)
        tail_mean == TailMean(betrag)
        last_row == df[Len(df)]
        last_date == last_row.Monat
        last_amount == last_row.Betrag
        future_list == Values([i \in 1..Horizon |->
                                 FuturePoint(df, current_trend, tail_mean, last_date, i)])
    IN [raised |-> FALSE, df |-> df, future |-> future_list,
        trend |-> current_trend, last_point |-> <<last_date, last_amount>>]

\* ------------------------------------------------------- the script run
NoPage ==
  [status |-> "none", df |-> <<>>, future |-> <<>>, trend |-> NaN,
   last_point |-> <<0, NaN>>, df_filtered |-> <<>>, df_prev_period |-> <<>>,
   sum_period |-> NaN, diff_val |-> NoDiff]

\* a period that includes its start month
FilteredRowsFromStart(df, start_date) == SelectSeq(df, LAMBDA r : r.Monat >= start_date)

\* df_raw_all[df_raw_all['Monat'] > start_date]
FilteredRows(df, start_date) == SelectSeq(df, LAMBDA r : r.Monat > start_date)

\* df_raw_all[(Monat <= start_date) & (Monat > start_date - pd.DateOffset(years=k))]
PrevPeriodRows(df, start_date, k) ==
  SelectSeq(df, LAMBDA r : r.Monat <= start_date /\ r.Monat > start_date - k * YearMonths)

\* diff_val: the change against the previous period, "--" when that frame is empty
DiffVal(sum_period, df_prev_period) ==
  IF df_prev_period # <<>>
  THEN FormatPct(FSub(FDiv(sum_period, SeriesSum(Column(df_prev_period, "Betrag"))), Num(1)))
  ELSE NoDiff

\* the filter buttons: the default "alles", then the button pressed in this run
FilterAfter(flt, click) ==
  IF click # "none" THEN click
  ELSE IF flt = "unset" THEN "alles" ELSE flt

\* lines 109-123: the period frames and their sums
PeriodPage(r, flt) ==
  LET df == r.df
      last_month == MaxOf({df[i].Monat : i \in 1..Len(df)})
      k == IF flt = "1j" THEN 1 ELSE 3
      start_date == last_month - k * YearMonths
      df_filtered == IF flt \in {"1j", "3j"} THEN FilteredRows(df, start_date) ELSE df
      df_prev_period == IF flt \in {"1j", "3j"} THEN PrevPeriodRows(df, start_date, k)
                        ELSE <<>>
      sum_period == SeriesSum(Column(df_filtered, "Betrag"))
  IN [status |-> "ok", df |-> df, future |-> r.future, trend |-> r.trend,
      last_point |-> r.last_point, df_filtered |-> df_filtered,
      df_prev_period |-> df_prev_period, sum_period |-> sum_period,
      diff_val |-> DiffVal(sum_period, df_prev_period)]

\* One run of the script from line 97 on, with the filter button pressed in it
\* (or "none").  An exception leaves st.error("Fehler: ...") on the page and the
\* session's filter as it was.
ScriptRun(st, flt, click) ==
  LET r == calculate_all_forecasts(load_data(st))
  IN IF r.raised THEN [page |-> [NoPage EXCEPT !.status = "Fehler"], filter |-> flt]
     ELSE IF r.df = <<>> THEN [page |-> [NoPage EXCEPT !.status = "blank"], filter |-> flt]
     ELSE LET f == FilterAfter(flt, click)
          IN [page |-> PeriodPage(r, f), filter |-> f]

\* ---------------------------------------------------------------- actions
Init ==
  /\ store = <<>>
  /\ filter = "unset"
  /\ page = NoPage

\* the form "Neue Daten erfassen": upsert, then st.rerun()
Submit(m, a) ==
  LET st == Upsert(store, m, a)
      r == ScriptRun(st, filter, "none")
  IN /\ store' = st
     /\ filter' = r.filter
     /\ page' = r.page

\* one of the buttons Alles / 1 Zeitjahr / 3 Zeitjahre, shown on a rendered page
ClickFilter(f) ==
  /\ page.status = "ok"
  /\ LET r == ScriptRun(store, filter, f)
     IN /\ filter' = r.filter
        /\ page' = r.page
  /\ UNCHANGED store

\* the page is loaded or rerun with nothing pressed
Rerun ==
  /\ LET r == ScriptRun(store, filter, "none")
     IN /\ filter' = r.filter
        /\ page' = r.page
  /\ UNCHANGED store

Observed == DOMAIN store

\* months on which the sparse specification enters data: the year boundaries
\* and the months next to them
GridMonths == {m \in 0..MaxMonth : m % YearMonths \in {0, 1}}

SubmitSparse ==
  \E m \in GridMonths, a \in Amounts :
    /\ Cardinality(Observed \cup {m}) <= MaxObs
    /\ Submit(m, a)

Next ==
  \/ SubmitSparse
  \/ \E f \in Filters : ClickFilter(f)
  \/ Rerun

Spec == Init /\ [][Next]_vars

\* the number of missing months between the first and the last observed month
Gaps(S) == IF S = {} THEN 0 ELSE MaxOf(S) - MinOf(S) + 1 - Cardinality(S)

\* the number of observed amounts other than 1
Odd(st) == Cardinality({x \in DOMAIN st : st[x] # 1})

\* Data entry month after month: the next month, or the one after it (leaving
\* a month out).  The table holds at most `rows` rows, at most `gaps` missing
\* months, and at most `irregular` missing months and amounts other than 1.
SubmitNext(rows, gaps, irregular) ==
  \E a \in Amounts, skip \in {0, 1} :
    LET m == IF Observed = {} THEN 0 ELSE MaxOf(Observed) + 1 + skip
        st == Upsert(store, m, a)
    IN /\ Cardinality(DOMAIN st) <= rows
       /\ Gaps(DOMAIN st) <= gaps
       /\ Gaps(DOMAIN st) + Odd(st) <= irregular
       /\ Submit(m, a)

NextDense == SubmitNext(MaxRows, MaxIrregular, MaxIrregular)

SpecDense == Init /\ [][NextDense]_vars

NextTrend == SubmitNext(MaxTrendRows, 0, MaxTrendOdd)

SpecTrend == Init /\ [][NextTrend]_vars

\* ------------------------------------------------- the claims' vocabulary
\* the sum of the observed amounts of the months in S
RECURSIVE SumAmounts(_)
SumAmounts(S) ==
  IF S = {} THEN 0
  ELSE LET m == CHOOSE x \in S : TRUE IN store[m] + SumAmounts(S \ {m})

\* the (up to) 6 latest months of S
Latest6(S) == {m \in S : Cardinality({x \in S : x > m}) < 6}

\* the mean of the observed amounts of the months in S, S not empty
MeanAmount(S) == Frac(SumAmounts(S), Cardinality(S))

Rendered == page.status = "ok"
LastObserved == MaxOf(Observed)
Rows == 1..Len(page.df)
MonthsOf(rows) == {rows[i].Monat : i \in 1..Len(rows)}

\* C1: for every observed month P the prior-year amount is the amount observed
\* at exactly P - 12 months and the growth factor is observed(P) /
\* observed(P - 12) - 1; both are absent when P - 12 months was not observed.
C1_CalendarPriorYear ==
  Rendered =>
    \A i \in Rows :
      LET r == page.df[i]
          anchor == r.Monat - YearMonths
      IN IF anchor \in Observed
         THEN /\ r.prev_year_amount = Num(store[anchor])
              /\ r.yoy_growth = FSub(FDiv(r.Betrag, Num(store[anchor])), Num(1))
         ELSE IsNaN(r.prev_year_amount) /\ IsNaN(r.yoy_growth)

\* C2: a rendered page holds exactly 12 forecast points, for the 12 months
\* after the last observed month in ascending order; the point of month F is
\* observed(F - 12) * (1 + current trend) when F - 12 was observed and the mean
\* of the last (up to) 6 observed amounts otherwise.
C2_ForecastPoints ==
  Rendered =>
    /\ Len(page.future) = Horizon
    /\ \A i \in 1..Horizon :
         LET F == LastObserved + i
         IN /\ page.future[i].Monat = F
            /\ page.future[i].Betrag =
                 IF F - YearMonths \in Observed
                 THEN FMul(Num(store[F - YearMonths]), FAdd(Num(1), page.trend))
                 ELSE MeanAmount(Latest6(Observed))

\* C2's case: a table with a missing month and a trend other than 0, where one
\* forecast month has its month of the year before observed and another has not.
C2_Witness ==
  /\ Rendered
  /\ Gaps(Observed) > 0
  /\ IsFinite(page.trend) /\ page.trend # Num(0)
  /\ \E i, j \in 1..Horizon :
       /\ LastObserved + i - YearMonths \in Observed
       /\ store[LastObserved + i - YearMonths] > 0
       /\ LastObserved + j - YearMonths \notin Observed
       /\ LastObserved + j - YearMonths > MinOf(Observed)

Timeline == [i \in 1..(Len(page.df) + Len(page.future)) |->
               IF i <= Len(page.df) THEN page.df[i].Monat
               ELSE page.future[i - Len(page.df)].Monat]

\* C4: the months of the historical frame and of the forecast frame form one
\* gap-free timeline from the first observed month to the last one + 12.
C4_ContiguousTimeline ==
  Rendered =>
    /\ Len(Timeline) = LastObserved - MinOf(Observed) + Horizon + 1
    /\ \A i \in 1..(Len(Timeline) - 1) : Timeline[i + 1] = Timeline[i] + 1

\* C5: with an empty table a script run does not end in the error branch.
C5_EmptyIsLegal ==
  (Observed = {} /\ page.status # "none") => page.status # "Fehler"

\* C6: a trend estimate with no growth factor available is 0: the current
\* trend when no row has a growth factor, the rolling trend of a row when no
\* row before it has one.
C6_NeutralTrend ==
  Rendered =>
    /\ (\A j \in Rows : IsNaN(page.df[j].yoy_growth)) => page.trend = Num(0)
    /\ \A i \in Rows :
         (\A j \in 1..(i - 1) : IsNaN(page.df[j].yoy_growth))
           => page.df[i].rolling_trend = Num(0)

\* the months of the comparison window before the period of k years
PrevWindow(k) ==
  {m \in Observed : /\ LastObserved - 2 * k * YearMonths < m
                    /\ m <= LastObserved - k * YearMonths}

\* the months of the period of k years
PeriodWindow(k) == {m \in Observed : LastObserved - k * YearMonths < m}

YearsOf(f) == IF f = "1j" THEN 1 ELSE 3

\* C7: "vs. Vor-Zeitraum" is current sum / previous sum - 1 only when the
\* previous sum is > 0; it is "--" when the previous window holds no
\* observation or sums to 0.
C7_PercentChange ==
  Rendered =>
    IF /\ filter \in {"1j", "3j"}
       /\ SumAmounts(PrevWindow(YearsOf(filter))) > 0
    THEN page.diff_val =
           FormatPct(FSub(FDiv(Num(SumAmounts(PeriodWindow(YearsOf(filter)))),
                               Num(SumAmounts(PrevWindow(YearsOf(filter))))), Num(1)))
    ELSE page.diff_val = NoDiff

\* C8: with a filter of k years the period holds the observed months m with
\* L - 12k < m <= L and the previous period those with L - 24k < m <= L - 12k;
\* no month is in both, the month L - 12k is in the previous period only, and
\* "alles" sums every observed amount.
C8_PeriodSums ==
  Rendered =>
    IF filter = "alles"
    THEN page.sum_period = Num(SumAmounts(Observed))
    ELSE LET k == YearsOf(filter)
         IN /\ MonthsOf(page.df_filtered) = PeriodWindow(k)
            /\ page.sum_period = Num(SumAmounts(PeriodWindow(k)))
            /\ MonthsOf(page.df_prev_period) = PrevWindow(k)
            /\ SeriesSum(Column(page.df_prev_period, "Betrag"))
                 = Num(SumAmounts(PrevWindow(k)))
            /\ MonthsOf(page.df_filtered) \cap MonthsOf(page.df_prev_period) = {}
            /\ LastObserved - k * YearMonths \in Observed
                 => /\ LastObserved - k * YearMonths \in MonthsOf(page.df_prev_period)
                    /\ LastObserved - k * YearMonths \notin MonthsOf(page.df_filtered)

\* C8's case: three years selected, the month exactly three years before the
\* last one observed with an amount, and a month inside the period besides
\* the last one.
C8_Witness ==
  /\ Rendered
  /\ filter = "3j"
  /\ LastObserved - 3 * YearMonths \in Observed
  /\ store[LastObserved - 3 * YearMonths] > 0
  /\ \E m \in PeriodWindow(3) : m # LastObserved /\ store[m] > 0

\* C9: the rolling trend of a row is the mean of the growth factors of the 6
\* latest rows before it that have one (of all of them when fewer than 6),
\* rows without a growth factor being skipped and not counted.
C9_RollingTrendWindow ==
  Rendered =>
    \A i \in Rows :
      LET D == {j \in 1..(i - 1) : IsFinite(page.df[j].yoy_growth)}
          W == Latest6(D)
          seq == SelectSeq(Column(page.df, "yoy_growth"), IsFinite)
      IN D # {} =>
           page.df[i].rolling_trend =
             SeriesMean([n \in 1..Cardinality(W) |-> seq[Cardinality(D) - Cardinality(W) + n]])

\* C10: a row whose prior-year amount is 0 has no growth factor, and no
\* infinite or NaN value reaches the current trend or a forecast point, no
\* infinite one the rolling trend.
C10_NoDivisionByZero ==
  Rendered =>
    /\ \A i \in Rows :
         /\ page.df[i].prev_year_amount = Num(0) => IsNaN(page.df[i].yoy_growth)
         /\ ~IsInf(page.df[i].rolling_trend)
    /\ IsFinite(page.trend)
    /\ \A i \in 1..Len(page.future) : IsFinite(page.future[i].Betrag)

====
